---- MODULE Spec2Model ----
(***************************************************************************)
(* Model of examples/"Skin of the Orange.ipynb": the Bayes error rate of   *)
(* the pooled test records, the two error estimators                       *)
(* (estimate_svc_on_data, estimate_mars_on_data) and the results table.    *)
(*                                                                         *)
(* A dataset is a sequence of rows; a row is the sequence of its columns   *)
(* (column c of the notebook is element c+1 of the row):                   *)
(*   column 0 simulation id, column 1 train/test flag (0 for training),    *)
(*   column 2 class id -1/1, columns 3-6 features, columns 7.. noise.      *)
(* Rates are exact rationals <<n, d>> in lowest terms with d > 0.  The     *)
(* standard error is carried by its square (the square root is monotone    *)
(* on the non-negative rationals, so order and equality are those of the   *)
(* squares).                                                               *)
(***************************************************************************)
EXTENDS Integers, Sequences, FiniteSets, TLC

VARIABLES
    \* cell 2: the loaded arrays
    no_noise_ds, six_noise_ds,
    \* cell 3: the Bayes error rate
    bpc, stacked, records, features, score, bayes_y_hat, bayes_error_rate,
    bayes_row,
    \* cells 4-8: one estimator at work
    pc, method, ds, sim_id, train_ds, test_ds, best_err, best_C, c_idx, err,
    sweep_errs, pred, y_hat, error_rates, returned, raised,
    \* the fit/predict procedure of the library
    deterministic, memo,
    \* cell 9: the table
    printed, table

bayes_vars == <<no_noise_ds, six_noise_ds, bpc, stacked, records, features,
                score, bayes_y_hat, bayes_error_rate, bayes_row>>
est_vars == <<pc, method, ds, sim_id, train_ds, test_ds, best_err, best_C,
              c_idx, err, sweep_errs, pred, y_hat, error_rates, returned,
              raised, deterministic, memo, printed, table>>
vars == <<bayes_vars, est_vars>>

-----------------------------------------------------------------------------
(* Bounds of the model *)

\* simulations per dataset (the notebook's 50)
NumSims == 2
\* cost values in the grid (the notebook's 20)
NumCosts == 2
\* training rows per simulation (the data's 100)
TrainPerSim == 1
\* test rows per simulation (the data's 1000)
TestPerSim == 2
\* test rows per simulation of the dataset the estimator is run on twice
TwiceTestPerSim == 1
\* rows in each of the two arrays the Bayes cell pools
BayesRows == 1
\* noise columns of the six-noise array (the data's 6)
NumNoise == 1

(* Constants of the program *)

FlagCol == 1
LabelCol == 2
FeatLo == 3
FeatHi == 7
StackWidth == 7
RingLo == 9
RingHi == 16
TrainFlag == 0
TestFlag == 1
CostLoHundredths == 1
CostHi == 5

\* values a feature column takes in the model, and the feature vectors built
\* from them: squared norms 8, 9, 16 and 17 sit on both sides of both ends of
\* the ring
FeatureVecs == { <<2, 2, 0, 0>>, <<3, 0, 0, 0>>, <<2, 2, 2, 2>>, <<4, 1, 0, 0>> }
NoiseVals == {0, 3}
Labels == {-1, 1}
Flags == {TrainFlag, TestFlag}
\* continuous outputs of the spline model: negative, zero, positive
ContVals == {-2, 0, 3}

None == "None"

-----------------------------------------------------------------------------
(* Exact rational arithmetic *)

RECURSIVE GCD(_, _)
GCD(a, b) == IF b = 0 THEN a ELSE GCD(b, a % b)

Abs(x) == IF x < 0 THEN -x ELSE x

Rat(n, d) == LET g == GCD(Abs(n), d) IN <<n \div g, d \div g>>

Zero == Rat(0, 1)
One == Rat(1, 1)

RAdd(p, q) == Rat(p[1] * q[2] + q[1] * p[2], p[2] * q[2])
RSub(p, q) == Rat(p[1] * q[2] - q[1] * p[2], p[2] * q[2])
RMul(p, q) == Rat(p[1] * q[1], p[2] * q[2])
RDivInt(p, k) == Rat(p[1], p[2] * k)
RLt(p, q) == p[1] * q[2] < q[1] * p[2]
RLe(p, q) == p[1] * q[2] <= q[1] * p[2]

RECURSIVE RSum(_)
RSum(s) == IF s = <<>> THEN Zero ELSE RAdd(s[1], RSum(Tail(s)))

RECURSIVE ISum(_)
ISum(s) == IF s = <<>> THEN 0 ELSE s[1] + ISum(Tail(s))

\* column c (counted from 0, as in the notebook) of a row
Col(row, c) == row[c + 1]
\* row[lo:hi] of the notebook: columns lo .. hi-1, cut at the row's end
Slice(row, lo, hi) ==
    SubSeq(row, lo + 1, IF hi < Len(row) THEN hi ELSE Len(row))

-----------------------------------------------------------------------------
(* Cell 3: Bayes error rate *)

\* six_noise_ds[:, :7]
StackShifted(row) == Slice(row, 0, FeatLo) \o Slice(row, FeatLo + 1, StackWidth + 1)
StackSlice(row) == Slice(row, 0, StackWidth)

\* np.vstack((no_noise_ds, six_noise_ds[:, :7]))
VStack(a, b) == a \o [i \in 1..Len(b) |-> StackSlice(b[i])]

\* ds[(ds[:, 1] == 1), :]
IsTestRow(row) == Col(row, FlagCol) = TestFlag
TestRecords(a) == SelectSeq(a, IsTestRow)

\* records[:, 3:7]
Features(a) == [i \in 1..Len(a) |-> Slice(a[i], FeatLo, FeatHi)]

\* np.sum(features**2, axis=1)
SqNorm(f) == ISum([j \in 1..Len(f) |-> f[j] * f[j]])
Score(fs) == [i \in 1..Len(fs) |-> SqNorm(fs[i])]

\* (score <= 16) & (score >= 9)
InRingOpen(s) == (s < RingHi) /\ (s > RingLo)
InRing(s) == (s <= RingHi) /\ (s >= RingLo)

\* 1 - 2*(...)
Classify(sc) == [i \in 1..Len(sc) |-> 1 - 2 * (IF InRing(sc[i]) THEN 1 ELSE 0)]

\* sklearn.metrics.accuracy_score: the fraction of positions that agree
AccuracyScore(y_true, y_pred) ==
    Rat(Cardinality({i \in 1..Len(y_true) : y_true[i] = y_pred[i]}), Len(y_true))

LabelsOf(a) == [i \in 1..Len(a) |-> Col(a[i], LabelCol)]

\* f'{x:.3f}': the nearest thousandth, a tie going to the even one; the
\* result is the number of thousandths
Fmt3(q) ==
    LET num == q[1] * 1000
        fl == num \div q[2]
        twice == 2 * (num % q[2])
    IN  IF twice < q[2] THEN fl
        ELSE IF twice > q[2] THEN fl + 1
        ELSE IF fl % 2 = 0 THEN fl ELSE fl + 1

\* the whole cell as a function of the two arrays
BayesRate(nn, sn) ==
    LET recs == TestRecords(VStack(nn, sn))
    IN  RSub(One, AccuracyScore(LabelsOf(recs), Classify(Score(Features(recs)))))

\* the rows the arrays are drawn from
NoiseFill == [j \in 1..NumNoise |-> 3]
NoNoiseRows ==
    { <<0, f, y>> \o x : f \in Flags, y \in Labels, x \in FeatureVecs }
SixNoiseRows == { r \o NoiseFill : r \in NoNoiseRows }
\* the six-noise array with its noise columns replaced by nz
WithNoise(sn, nz) == [i \in 1..Len(sn) |-> Slice(sn[i], 0, StackWidth) \o nz[i]]
NoiseFillings == [1..BayesRows -> [1..NumNoise -> NoiseVals]]

EstIdle ==
    /\ pc = "idle" /\ method = None /\ ds = <<>> /\ sim_id = 0
    /\ train_ds = <<>> /\ test_ds = <<>> /\ best_err = One /\ best_C = Zero
    /\ c_idx = 0 /\ err = None /\ sweep_errs = <<>> /\ pred = <<>>
    /\ y_hat = <<>> /\ error_rates = <<>> /\ returned = <<>>
    /\ raised = FALSE
    /\ deterministic = FALSE /\ memo = {} /\ printed = FALSE /\ table = <<>>

InitBayes ==
    /\ no_noise_ds \in [1..BayesRows -> NoNoiseRows]
    /\ six_noise_ds \in [1..BayesRows -> SixNoiseRows]
    /\ \E i \in 1..BayesRows : IsTestRow(no_noise_ds[i]) \/ IsTestRow(six_noise_ds[i])
    /\ bpc = "stack"
    /\ stacked = <<>> /\ records = <<>> /\ features = <<>> /\ score = <<>>
    /\ bayes_y_hat = <<>> /\ bayes_error_rate = None /\ bayes_row = None
    /\ EstIdle

BayesStack ==
    /\ bpc = "stack"
    /\ stacked' = VStack(no_noise_ds, six_noise_ds)
    /\ bpc' = "select"
    /\ UNCHANGED <<no_noise_ds, six_noise_ds, records, features, score,
                   bayes_y_hat, bayes_error_rate, bayes_row, est_vars>>

BayesSelect ==
    /\ bpc = "select"
    /\ records' = TestRecords(stacked)
    /\ features' = Features(TestRecords(stacked))
    /\ bpc' = "score"
    /\ UNCHANGED <<no_noise_ds, six_noise_ds, stacked, score, bayes_y_hat,
                   bayes_error_rate, bayes_row, est_vars>>

BayesScore ==
    /\ bpc = "score"
    /\ score' = Score(features)
    /\ bayes_y_hat' = Classify(Score(features))
    /\ bpc' = "rate"
    /\ UNCHANGED <<no_noise_ds, six_noise_ds, stacked, records, features,
                   bayes_error_rate, bayes_row, est_vars>>

BayesRateStep ==
    /\ bpc = "rate"
    /\ bayes_error_rate' = RSub(One, AccuracyScore(LabelsOf(records), bayes_y_hat))
    /\ bpc' = "print"
    /\ UNCHANGED <<no_noise_ds, six_noise_ds, stacked, records, features,
                   score, bayes_y_hat, bayes_row, est_vars>>

\* the last line of cell 9: the one rate under both columns
BayesPrint ==
    /\ bpc = "print"
    /\ bayes_row' = <<Fmt3(bayes_error_rate), Fmt3(bayes_error_rate)>>
    /\ bpc' = "done"
    /\ UNCHANGED <<no_noise_ds, six_noise_ds, stacked, records, features,
                   score, bayes_y_hat, bayes_error_rate, est_vars>>

NextBayes == BayesStack \/ BayesSelect \/ BayesScore \/ BayesRateStep \/ BayesPrint

SpecBayes == InitBayes /\ [][NextBayes]_vars


-----------------------------------------------------------------------------
(* Cells 4-8: the estimators *)

\* (ds[:, 0] == sim_id) & (ds[:, 1] == 0)
IsTrainAnySim(row, s) == Col(row, FlagCol) = TrainFlag
IsTrainOf(row, s) == Col(row, 0) = s /\ Col(row, FlagCol) = TrainFlag
\* (ds[:, 0] == sim_id) & (ds[:, 1] == 1)
IsTestAsTrain(row, s) == Col(row, 0) = s /\ Col(row, FlagCol) = TrainFlag
IsTestOf(row, s) == Col(row, 0) = s /\ Col(row, FlagCol) = TestFlag

TrainRows(d, s) == SelectSeq(d, LAMBDA row : IsTrainOf(row, s))
TestRows(d, s) == SelectSeq(d, LAMBDA row : IsTestOf(row, s))

\* a[:, 3:] and a[:, 2]: what fit, score and predict are given
XOf(a) == [i \in 1..Len(a) |-> Slice(a[i], FeatLo, Len(a[i]))]
YOf(a) == [i \in 1..Len(a) |-> Col(a[i], LabelCol)]

\* np.linspace(0.01, 5, 20)[k]
Linspace(k) ==
    Rat(CostLoHundredths * (NumCosts - 1) + k * (CostHi * 100 - CostLoHundredths),
        100 * (NumCosts - 1))

\* best_err, best_C = 1, 0
BestErrCarried(prev) == prev
BestErrInit(prev) == One

\* err < best_err
BetterFlipped(e, b) == RLt(b, e)
Better(e, b) == RLt(e, b)

\* 1 - SVC(...).fit(...).score(...)
SvcErrFlipped(sc) == RSub(sc, One)
SvcErr(sc) == RSub(One, sc)

\* np.sign
SignThreshold(x) == IF x >= 0 THEN 1 ELSE -1
Sign(x) == IF x > 0 THEN 1 ELSE IF x < 0 THEN -1 ELSE 0

\* 1 - accuracy_score(test_ds[:, 2], y_hat)
MarsErr(y_true, y_pred) == RSub(One, AccuracyScore(y_true, y_pred))

\* np.zeros(50)
Zeros == [i \in 1..NumSims |-> Zero]

\* np.mean
Mean(er) == RDivInt(RSum(er), Len(er))

\* np.std squared: the mean of the squared deviations from the mean
VarSample(er) ==
    LET m == Mean(er)
    IN  RDivInt(RSum([i \in 1..Len(er) |-> RMul(RSub(er[i], m), RSub(er[i], m))]),
                Len(er) - 1)
Var(er) ==
    LET m == Mean(er)
    IN  Mean([i \in 1..Len(er) |-> RMul(RSub(er[i], m), RSub(er[i], m))])

\* (np.std(error_rates)/np.sqrt(50)) squared
StdErrSq(er) == RDivInt(Var(er), NumSims)

\* an exception of fit, score or predict: nothing in the loop catches it
OnRaiseSwallow == [pc |-> "loop", store |-> TRUE]
OnRaise == [pc |-> "failed", store |-> FALSE]

(* The library's fit/score/predict.  A call is identified by what it is     *)
(* given; its outcome is any value of the right shape, or an exception.     *)
(* When the procedure is deterministic, a call given what an earlier call   *)
(* was given yields what that call yielded.                                 *)
SvcKey == <<"svc", XOf(train_ds), YOf(train_ds), Linspace(c_idx),
            XOf(test_ds), YOf(test_ds)>>
MarsKey == <<"mars", XOf(train_ds), YOf(train_ds), XOf(test_ds)>>

Known(key) == deterministic /\ \E m \in memo : m.key = key
Recall(key) == (CHOOSE m \in memo : m.key = key).out
Remember(key, out) ==
    IF deterministic THEN memo \cup {[key |-> key, out |-> out]} ELSE memo

\* 0 samples make fit, score and predict raise
Usable == Len(train_ds) > 0 /\ Len(test_ds) > 0

SvcScores ==
    IF Known(SvcKey) THEN {Recall(SvcKey)}
    ELSE IF Usable THEN {Rat(k, Len(test_ds)) : k \in 0..Len(test_ds)}
    ELSE {}
MarsOutputs ==
    IF Known(MarsKey) THEN {Recall(MarsKey)}
    ELSE IF Usable THEN [1..Len(test_ds) -> ContVals]
    ELSE {}

\* the datasets: every simulation has TrainPerSim training rows and
\* TestPerSim test rows
RowOf(s, f, j, phase) ==
    <<s, f, IF (s + j + phase) % 2 = 0 THEN 1 ELSE -1, s, j, f, 0>>
Block(s, phase, nTest) ==
    [j \in 1..(TrainPerSim + nTest) |->
        IF j <= TrainPerSim THEN RowOf(s, TrainFlag, j, phase)
        ELSE RowOf(s, TestFlag, j - TrainPerSim, phase)]
Grouped(phase, nTest) ==
    [i \in 1..(NumSims * (TrainPerSim + nTest)) |->
        Block((i - 1) \div (TrainPerSim + nTest), phase, nTest)
             [((i - 1) % (TrainPerSim + nTest)) + 1]]
Interleaved(phase, nTest) ==
    [i \in 1..(NumSims * (TrainPerSim + nTest)) |->
        Block((i - 1) % NumSims, phase, nTest)[((i - 1) \div NumSims) + 1]]
Datasets == { Grouped(0, TestPerSim), Grouped(1, TestPerSim),
              Interleaved(0, TestPerSim), Interleaved(1, TestPerSim) }

BayesIdle ==
    /\ no_noise_ds = <<>> /\ six_noise_ds = <<>> /\ bpc = "idle"
    /\ stacked = <<>> /\ records = <<>> /\ features = <<>> /\ score = <<>>
    /\ bayes_y_hat = <<>> /\ bayes_error_rate = None /\ bayes_row = None

EstStart ==
    /\ pc = "call" /\ sim_id = 0
    /\ train_ds = <<>> /\ test_ds = <<>> /\ best_err = One /\ best_C = Zero
    /\ c_idx = 0 /\ err = None /\ sweep_errs = <<>> /\ pred = <<>>
    /\ y_hat = <<>> /\ error_rates = <<>> /\ returned = <<>>
    /\ raised = FALSE
    /\ memo = {} /\ printed = FALSE /\ table = <<>>

Init ==
    /\ BayesIdle
    /\ method \in {"svc", "mars"}
    /\ ds \in Datasets
    /\ deterministic = FALSE
    /\ EstStart

\* error_rates = np.zeros(50); for sim_id in range(50):
Enter ==
    /\ pc = "call"
    /\ error_rates' = Zeros
    /\ sim_id' = 0
    /\ pc' = "loop"
    /\ UNCHANGED <<bayes_vars, method, ds, train_ds, test_ds, best_err, best_C,
                   c_idx, err, sweep_errs, pred, y_hat, returned, raised,
                   deterministic, memo, printed, table>>

SvcSelect ==
    /\ pc = "loop" /\ method = "svc" /\ sim_id < NumSims
    /\ train_ds' = TrainRows(ds, sim_id)
    /\ test_ds' = TestRows(ds, sim_id)
    /\ best_err' = BestErrInit(best_err)
    /\ best_C' = Zero
    /\ c_idx' = 0
    /\ sweep_errs' = <<>>
    /\ pc' = "sweep"
    /\ UNCHANGED <<bayes_vars, method, ds, sim_id, err, pred, y_hat,
                   error_rates, returned, raised, deterministic, memo, printed, table>>

SvcFit ==
    /\ pc = "sweep" /\ c_idx < NumCosts
    /\ \E sc \in SvcScores :
        /\ err' = SvcErr(sc)
        /\ sweep_errs' = Append(sweep_errs, SvcErr(sc))
        /\ memo' = Remember(SvcKey, sc)
    /\ pc' = "compare"
    /\ UNCHANGED <<bayes_vars, method, ds, sim_id, train_ds, test_ds, best_err,
                   best_C, c_idx, pred, y_hat, error_rates, returned, raised,
                   deterministic, printed, table>>

Raise ==
    /\ pc' = OnRaise.pc
    /\ error_rates' = IF OnRaise.store
                      THEN [error_rates EXCEPT ![sim_id + 1] = One]
                      ELSE error_rates
    /\ sim_id' = IF OnRaise.store THEN sim_id + 1 ELSE sim_id
    /\ raised' = TRUE

SvcFitRaise ==
    /\ pc = "sweep" /\ c_idx < NumCosts
    /\ ~Known(SvcKey)
    /\ Raise
    /\ UNCHANGED <<bayes_vars, method, ds, train_ds, test_ds, best_err, best_C,
                   c_idx, err, sweep_errs, pred, y_hat, returned,
                   deterministic, memo, printed, table>>

SvcCompare ==
    /\ pc = "compare"
    /\ IF Better(err, best_err)
       THEN best_err' = err /\ best_C' = Linspace(c_idx)
       ELSE UNCHANGED <<best_err, best_C>>
    /\ c_idx' = c_idx + 1
    /\ pc' = "sweep"
    /\ UNCHANGED <<bayes_vars, method, ds, sim_id, train_ds, test_ds, err,
                   sweep_errs, pred, y_hat, error_rates, returned, raised,
                   deterministic, memo, printed, table>>

SvcStore ==
    /\ pc = "sweep" /\ c_idx = NumCosts
    /\ error_rates' = [error_rates EXCEPT ![sim_id + 1] = best_err]
    /\ sim_id' = sim_id + 1
    /\ pc' = "loop"
    /\ UNCHANGED <<bayes_vars, method, ds, train_ds, test_ds, best_err, best_C,
                   c_idx, err, sweep_errs, pred, y_hat, returned, raised,
                   deterministic, memo, printed, table>>

MarsSelect ==
    /\ pc = "loop" /\ method = "mars" /\ sim_id < NumSims
    /\ train_ds' = TrainRows(ds, sim_id)
    /\ test_ds' = TestRows(ds, sim_id)
    /\ pc' = "fit"
    /\ UNCHANGED <<bayes_vars, method, ds, sim_id, best_err, best_C, c_idx, err,
                   sweep_errs, pred, y_hat, error_rates, returned, raised,
                   deterministic, memo, printed, table>>

MarsFit ==
    /\ pc = "fit"
    /\ \E out \in MarsOutputs :
        /\ pred' = out
        /\ y_hat' = [i \in 1..Len(out) |-> Sign(out[i])]
        /\ memo' = Remember(MarsKey, out)
    /\ pc' = "score"
    /\ UNCHANGED <<bayes_vars, method, ds, sim_id, train_ds, test_ds, best_err,
                   best_C, c_idx, err, sweep_errs, error_rates, returned, raised,
                   deterministic, printed, table>>

MarsFitRaise ==
    /\ pc = "fit"
    /\ ~Known(MarsKey)
    /\ Raise
    /\ UNCHANGED <<bayes_vars, method, ds, train_ds, test_ds, best_err, best_C,
                   c_idx, err, sweep_errs, pred, y_hat, returned,
                   deterministic, memo, printed, table>>

MarsStore ==
    /\ pc = "score"
    /\ error_rates' = [error_rates EXCEPT ![sim_id + 1] = MarsErr(YOf(test_ds), y_hat)]
    /\ sim_id' = sim_id + 1
    /\ pc' = "loop"
    /\ UNCHANGED <<bayes_vars, method, ds, train_ds, test_ds, best_err, best_C,
                   c_idx, err, sweep_errs, pred, y_hat, returned, raised,
                   deterministic, memo, printed, table>>

\* return np.mean(error_rates), np.std(error_rates)/np.sqrt(50)
Return ==
    /\ pc = "loop" /\ sim_id = NumSims
    /\ returned' = Append(returned, <<Mean(error_rates), StdErrSq(error_rates)>>)
    /\ pc' = "returned"
    /\ UNCHANGED <<bayes_vars, method, ds, sim_id, train_ds, test_ds, best_err,
                   best_C, c_idx, err, sweep_errs, pred, y_hat, error_rates,
                   raised, deterministic, memo, printed, table>>

\* cell 9: the method's row, printed once the estimate is there
PrintTable ==
    /\ pc = "returned" /\ ~printed
    /\ table' = <<Fmt3(returned[Len(returned)][1])>>
    /\ printed' = TRUE
    /\ UNCHANGED <<bayes_vars, pc, method, ds, sim_id, train_ds, test_ds,
                   best_err, best_C, c_idx, err, sweep_errs, pred, y_hat,
                   error_rates, returned, raised, deterministic, memo>>

Next ==
    \/ Enter
    \/ SvcSelect \/ SvcFit \/ SvcFitRaise \/ SvcCompare \/ SvcStore
    \/ MarsSelect \/ MarsFit \/ MarsFitRaise \/ MarsStore
    \/ Return \/ PrintTable

Spec == Init /\ [][Next]_vars

(* The estimator called a second time on the same dataset with the same     *)
(* configuration, the library's procedure being deterministic.              *)
TwiceDs == Interleaved(0, TwiceTestPerSim)

InitTwice ==
    /\ BayesIdle
    /\ method \in {"svc", "mars"}
    /\ ds = TwiceDs
    /\ deterministic = TRUE
    /\ EstStart

CallAgain ==
    /\ pc = "returned" /\ Len(returned) = 1
    /\ pc' = "call"
    /\ UNCHANGED <<bayes_vars, method, ds, sim_id, train_ds, test_ds, best_err,
                   best_C, c_idx, err, sweep_errs, pred, y_hat, error_rates,
                   returned, raised, deterministic, memo, printed, table>>

NextTwice == Next \/ CallAgain

SpecTwice == InitTwice /\ [][NextTwice]_vars


-----------------------------------------------------------------------------
(* Properties *)

Range(a) == {a[i] : i \in 1..Len(a)}

\* the sum of squares of the four informative features (columns 3..6) of a row
SumSq4(row) == row[4] * row[4] + row[5] * row[5] + row[6] * row[6] + row[7] * row[7]

\* rows of an array whose flag column is 1
FlaggedTest(a) == {i \in 1..Len(a) : a[i][2] = 1}

\* C1: the Bayes oracle predicts -1 for a test record exactly when the sum
\* of squares of its four informative features lies in the closed interval
\* [9, 16] and +1 otherwise, over exactly the test records of the two arrays,
\* and the rate it reports is the exact fraction of those records whose
\* predicted label differs from the true one.
C1_BayesOracle ==
    /\ bpc \in {"rate", "print", "done"} =>
        /\ Len(records) = Cardinality(FlaggedTest(no_noise_ds))
                          + Cardinality(FlaggedTest(six_noise_ds))
        /\ Len(bayes_y_hat) = Len(records)
        /\ \A i \in 1..Len(records) :
            /\ records[i][2] = 1
            /\ bayes_y_hat[i] =
                 IF 9 <= SumSq4(records[i]) /\ SumSq4(records[i]) <= 16
                 THEN -1 ELSE 1
    /\ bpc \in {"print", "done"} =>
        bayes_error_rate[1] * Len(records) =
            bayes_error_rate[2]
            * Cardinality({i \in 1..Len(records) : bayes_y_hat[i] # records[i][3]})

\* both ends of the ring are met: squared norms 9 and 16, both predicted -1,
\* one of the two records misclassified
C1_Witness ==
    /\ bpc = "done"
    /\ score = <<9, 16>>
    /\ bayes_y_hat = <<-1, -1>>
    /\ bayes_error_rate = Rat(1, 2)

\* C5: the Bayes error rate is computed once from the pooled test records of
\* both arrays and does not depend on the noise columns of the six-noise
\* array: any other filling of those columns gives the same rate, and that
\* one rate is printed under both columns of the table.
C5_NoiseInvariant ==
    /\ bpc = "print" =>
        /\ Len(records) = Cardinality(FlaggedTest(no_noise_ds))
                          + Cardinality(FlaggedTest(six_noise_ds))
        /\ \A nz \in NoiseFillings :
            BayesRate(no_noise_ds, WithNoise(six_noise_ds, nz)) = bayes_error_rate
    /\ bpc = "done" =>
        /\ bayes_row[1] = Fmt3(bayes_error_rate)
        /\ bayes_row[2] = bayes_row[1]

\* a test record of the six-noise array is pooled, classified and
\* misclassified, and the rate is printed
C5_Witness ==
    /\ bpc = "done"
    /\ \A i \in 1..Len(six_noise_ds) : six_noise_ds[i][2] = 1
    /\ \E i \in 1..Len(no_noise_ds) : no_noise_ds[i][2] = 0
    /\ bayes_error_rate = One
    /\ bayes_row = <<1000, 1000>>

\* C2: the error stored for a simulation by estimate_svc_on_data is at most
\* the error of each cost value of the grid and equals the error of one of
\* them, also when every candidate's error is 1.
C2_GridMin ==
    (method = "svc" /\ pc \in {"loop", "returned"} /\ sim_id >= 1) =>
        /\ Len(sweep_errs) = NumCosts
        /\ \A k \in 1..Len(sweep_errs) : RLe(error_rates[sim_id], sweep_errs[k])
        /\ \E k \in 1..Len(sweep_errs) : error_rates[sim_id] = sweep_errs[k]

\* a sweep whose candidates all err on every test row, after a sweep that
\* found a better candidate
C2_Witness ==
    /\ method = "svc" /\ pc = "loop" /\ sim_id >= 2
    /\ \A k \in 1..Len(sweep_errs) : sweep_errs[k] = One
    /\ error_rates[sim_id] = One
    /\ error_rates[1] = Rat(1, 2)

\* C3: every error rate held in error_rates is in [0, 1] at every point of a
\* run, the returned mean is in [0, 1], and the returned standard error is
\* >= 0 and <= 1/sqrt(number of simulations) (stated on its square).
C3_Ranges ==
    /\ \A r \in 1..Len(error_rates) :
        /\ error_rates[r][1] >= 0
        /\ error_rates[r][1] <= error_rates[r][2]
    /\ \A k \in 1..Len(returned) :
        /\ returned[k][1][1] >= 0
        /\ returned[k][1][1] <= returned[k][1][2]
        /\ returned[k][2][1] >= 0
        /\ returned[k][2][1] * NumSims <= returned[k][2][2]

\* an estimate with a mean strictly inside (0, 1) and a positive standard error
C3_Witness ==
    /\ pc = "returned"
    /\ returned[1][1][1] > 0 /\ returned[1][1][1] < returned[1][1][2]
    /\ returned[1][2][1] > 0

\* C4: with a deterministic fit/predict procedure, a second call of the
\* estimator on the same dataset with the same configuration returns the
\* pair the first call returned.
C4_Deterministic ==
    (deterministic /\ Len(returned) = 2) => returned[1] = returned[2]

\* both calls have returned, and the simulations did not all err alike
C4_Witness ==
    /\ deterministic
    /\ Len(returned) = 2
    /\ returned[2][2] # Zero

\* C6: the training rows and the test rows selected for a simulation are
\* disjoint and together are all the rows of the dataset with that
\* simulation id.
C6_Partition ==
    pc \in {"sweep", "compare", "fit", "score", "failed"} =>
        /\ Range(train_ds) \cap Range(test_ds) = {}
        /\ Range(train_ds) \cup Range(test_ds)
             = {ds[i] : i \in {j \in 1..Len(ds) : ds[j][1] = sim_id}}
        /\ Len(train_ds) + Len(test_ds)
             = Cardinality({j \in 1..Len(ds) : ds[j][1] = sim_id})
        /\ \A i \in 1..Len(train_ds) : train_ds[i][2] = 0
        /\ \A i \in 1..Len(test_ds) : test_ds[i][2] = 1

\* the last simulation's rows are selected, both parts non-empty
C6_Witness ==
    /\ pc \in {"sweep", "fit"}
    /\ sim_id = NumSims - 1
    /\ Len(train_ds) = TrainPerSim
    /\ Len(test_ds) = TestPerSim

\* C7: the returned mean is the arithmetic mean of the stored error rates,
\* and the returned standard error is their population standard deviation
\* (squared deviations from the mean, summed and divided by the number of
\* simulations) divided by the square root of the number of simulations.
C7_Aggregate ==
    pc = "returned" =>
        LET r == returned[Len(returned)]
            n == Len(error_rates)
            sq == [i \in 1..n |-> RMul(error_rates[i], error_rates[i])]
            dev == [i \in 1..n |-> RSub(error_rates[i], r[1])]
            dev2 == [i \in 1..n |-> RMul(dev[i], dev[i])]
        IN  /\ n = NumSims
            /\ RMul(r[1], Rat(n, 1)) = RSum(error_rates)
            /\ RMul(r[2], Rat(n * n, 1)) = RSum(dev2)
            /\ RMul(r[2], Rat(n, 1)) = RSub(RDivInt(RSum(sq), n), RMul(r[1], r[1]))

\* an estimate over error rates that differ
C7_Witness ==
    /\ pc = "returned"
    /\ error_rates[1] = Zero
    /\ error_rates[NumSims] = One
    /\ returned[1][2] # Zero

\* C8: the fit and the measurement of simulation r are given only rows with
\* simulation id r, training rows to the fit and test rows to the
\* measurement; error_rates changes only at index r, at the store that ends
\* the work on simulation r, and the loop then moves on for good.
C8_Step ==
    /\ pc' \in {"sweep", "compare", "fit", "score"} =>
        /\ \A i \in 1..Len(train_ds') :
            train_ds'[i][1] = sim_id' /\ train_ds'[i][2] = 0
        /\ \A i \in 1..Len(test_ds') :
            test_ds'[i][1] = sim_id' /\ test_ds'[i][2] = 1
    /\ sim_id' >= sim_id
    /\ (error_rates # <<>>) =>
        \A r \in 1..Len(error_rates) :
            error_rates'[r] # error_rates[r] =>
                /\ r = sim_id + 1
                /\ sim_id' = sim_id + 1
                /\ pc \in {"sweep", "score"}
                /\ pc' = "loop"
                /\ method = "svc" => (c_idx = NumCosts /\ error_rates'[r] = best_err)
C8_Isolation == [][C8_Step]_vars

\* every simulation stored, the first one's rate left as it was stored
C8_Witness ==
    /\ pc = "loop" /\ sim_id = NumSims
    /\ error_rates[1] = One
    /\ error_rates[NumSims] = Zero

\* C9: once fit, score or predict has raised, the call has failed: nothing
\* is returned or printed, nothing is stored for the simulation at hand or
\* for a later one, the loop has not moved on, and no further step is taken.
C9_Failed ==
    /\ pc = "failed"
    /\ returned = <<>>
    /\ ~printed
    /\ table = <<>>
    /\ sim_id < NumSims
    /\ \A r \in (sim_id + 1)..NumSims : error_rates[r] = Zero
C9_Step ==
    /\ ~raised
    /\ raised' => (C9_Failed' /\ sim_id' = sim_id /\ error_rates' = error_rates)
C9_NoRecovery == [][C9_Step]_vars

\* a failure on a later simulation, after an earlier one was stored
C9_Witness ==
    /\ raised
    /\ sim_id >= 1
    /\ error_rates[1] # Zero

\* C10: in estimate_mars_on_data the predicted label is the sign of the
\* continuous output: +1 above zero, -1 below zero, and 0 at zero, which is
\* neither class label, so such a record counts as misclassified whatever
\* its true label.
C10_SignZero ==
    /\ (method = "mars" /\ pc = "score") =>
        \A i \in 1..Len(pred) :
            /\ pred[i] > 0 => y_hat[i] = 1
            /\ pred[i] < 0 => y_hat[i] = -1
            /\ pred[i] = 0 => (y_hat[i] = 0 /\ y_hat[i] # test_ds[i][3])
    /\ (method = "mars" /\ pc \in {"loop", "returned"} /\ sim_id >= 1) =>
        error_rates[sim_id][1] * Len(test_ds) =
            error_rates[sim_id][2]
            * Cardinality({i \in 1..Len(test_ds) :
                  \/ pred[i] = 0
                  \/ (pred[i] > 0 /\ test_ds[i][3] = -1)
                  \/ (pred[i] < 0 /\ test_ds[i][3] = 1)})

\* every output is zero on test rows of both classes: every row is an error
C10_Witness ==
    /\ method = "mars" /\ pc = "loop" /\ sim_id >= 1
    /\ \A i \in 1..Len(pred) : pred[i] = 0
    /\ \E i \in 1..Len(test_ds) : test_ds[i][3] = 1
    /\ \E i \in 1..Len(test_ds) : test_ds[i][3] = -1
    /\ error_rates[sim_id] = One

====
